---- MODULE Spec2Model ----
(***************************************************************************)
(* Layer / category state management of the three map scripts:            *)
(*   IndiaLandUseMap  (enhanced land-use script)                          *)
(*   FRAWebGIS        (static/fra_webgis_script.js)                       *)
(*   LandUseMap       (static/script.js)                                  *)
(* One page runs one script; `script` says which.  A step of the model is *)
(* one event handler or one continuation of an async function after an    *)
(* await (the JavaScript event loop runs each of them to completion).     *)
(***************************************************************************)
EXTENDS Integers, Sequences, FiniteSets, TLC

\* ------------------------------------------------------------------ bounds
MaxFeatures == 2   \* longest feature collection a response carries
MaxReloads  == 2   \* number of data fetches issued in one session
MaxFilterReloads == 3   \* the same, where only the filters are explored
MaxExports  == 1   \* number of export fetches issued in one session
MaxDetails  == 2   \* number of claim-detail fetches issued in one session

\* --------------------------------------------------------------- constants
India == "IndiaLandUseMap"
FRA   == "FRAWebGIS"
Land  == "LandUseMap"
Scripts == {India, FRA, Land}

None    == "<none>"      \* absent value (null / no element / not yet set)
Missing == "<missing>"   \* a feature whose category property is absent

\* keys of the style tables
IndiaClassStyles ==
    {"water", "forest_dense", "forest_open", "agriculture_irrigated",
     "agriculture_rainfed", "urban", "grassland", "wasteland", "wetland",
     "mangrove", "fra_area"}
fraTypeStyles == {"IFR", "CFR", "CR"}
LandClassStyles == {"water", "forest", "agriculture"}

StyleKeys(s) ==
    CASE s = India -> IndiaClassStyles
      [] s = FRA   -> fraTypeStyles
      [] s = Land  -> LandClassStyles

\* property names every object literal inherits from Object.prototype
\* ("constructor" stands for them: toString, valueOf, hasOwnProperty, ...)
ObjectPrototypeKeys == {"constructor"}

\* category values the modelled server puts on features, per script: styled
\* categories, one that has no style, the absent category, and one that
\* names an inherited property of the grouping object
Categories(s) ==
    CASE s = India -> {"water", "urban", "barren", Missing, "constructor"}
      [] s = FRA   -> {"IFR", "CFR", "ifr", Missing, "constructor"}
      [] s = Land  -> {"water", "forest", "urban", Missing, "constructor"}

\* the categories of the collections that reloads are explored with
ReloadCategories(s) ==
    CASE s = India -> {"water", "barren"}
      [] s = FRA   -> {"IFR", "CFR", "ifr"}
      [] s = Land  -> {"water", "forest", "urban"}

AllCategories == UNION {Categories(s) : s \in Scripts}

\* filter form fields and the values a user can put in them
FilterFields == {"state", "district"}
FilterValues == {"", "X"}
\* the filter forms of the filter specification: a state that is empty or
\* blank (whitespace), a district that is empty or chosen
FilterForms ==
    {fields \in [FilterFields -> {"", " ", "X"}] :
        fields.state # "X" /\ fields.district # " "}
\* the filter forms that reloads are explored with
ReloadForms == {[f \in FilterFields |-> ""]}

\* a JavaScript property key: undefined is coerced to the string "undefined"
PropertyKey(v) == IF v = Missing THEN "undefined" ELSE v

\* String.prototype.toLowerCase on the keys that occur
toLowerCase(s) ==
    CASE s = "IFR" -> "ifr"
      [] s = "CFR" -> "cfr"
      [] s = "CR"  -> "cr"
      [] OTHER     -> s

Range(f) == {f[x] : x \in DOMAIN f}
EmptyMap == [x \in {} |-> None]

\* feature collections: feature i of a response carries category cs[i]
CategorySeqs(s) ==
    UNION {[1..n -> Categories(s)] : n \in 0..MaxFeatures}
ReloadSeqs(s) ==
    UNION {[1..n -> ReloadCategories(s)] : n \in 0..MaxFeatures}
ShortSeqs(s) ==
    UNION {[1..n -> ReloadCategories(s)] : n \in 0..1}
FeaturesOf(cs) == [i \in 1..Len(cs) |-> [id |-> i, category |-> cs[i]]]

\* ------------------------------------------------------------------- state
VARIABLES
    script,          \* which of the three scripts the page runs
    initPc,          \* position of init / loadInitialData (the fetch awaited)
    checkbox,        \* layer checkboxes of the page: element -> checked
    currentFilters,  \* this.currentFilters: field -> value
    pending,         \* data fetches in flight: [id, params, initial]
    reqCount,        \* number of data fetches issued so far
    layers,          \* this.layers: category key -> layer object (non-null)
    mapLayers,       \* the layer objects the Leaflet map holds
    counts,          \* count-<key> elements: key -> displayed number
    featureCount,    \* number shown by the feature-count element: <<n>>,
                     \* or <<>> while nothing has been written to it
    status,          \* LandUseMap status element class
    newest,          \* how the newest data fetch stands: "pending", "loaded",
                     \* "failed" (None before the first fetch)
    lastKind,        \* kind of the data response handled last
    lastResult,      \* what became of it: "loaded", or "failed" (error shown)
    lastInput,       \* features handed to the last processData call
    lastGrouped,     \* featuresByClass / featuresByType of that call
    lastVis,         \* per category: value of the last toggleLayer call
    builtFrom,       \* id of the fetch whose response last rewrote the layers
    builtParams,     \* the query that fetch was issued with
    exports,         \* export fetches in flight: [id, query]
    exportCount,     \* number of export fetches issued so far
    detailFetches,   \* the claim-detail fetches issued so far, in order:
                     \* [claimId, outcome], outcome "pending" while in flight
    modal,           \* <<record>> the claim modal displays, <<>> while hidden
    detailResult     \* outcome of the detail response handled last

vars == <<script, initPc, checkbox, currentFilters, pending, reqCount, layers,
          mapLayers, counts, featureCount, status, newest, lastKind,
          lastResult, lastInput, lastGrouped, lastVis, builtFrom,
          builtParams,
          exports, exportCount, detailFetches, modal, detailResult>>

\* the state of exportData and of showClaimDetails
exportVars == <<exports, exportCount>>
detailVars == <<detailFetches, modal, detailResult>>

\* ------------------------------------------------------- classification
\* the forEach of processData / processClaimsData that groups the features:
\* a bucket is created the first time its key is seen
\* faulty variant: a feature is put at the front of its bucket
RECURSIVE groupFeaturesUnshift(_, _)
groupFeaturesUnshift(features, featuresByClass) ==
    IF features = <<>> THEN featuresByClass
    ELSE LET feature   == Head(features)
             className == PropertyKey(feature.category)
             withKey   == IF className \in DOMAIN featuresByClass
                          THEN featuresByClass
                          ELSE featuresByClass @@ (className :> <<>>)
         IN  groupFeaturesUnshift(Tail(features),
                 [withKey EXCEPT ![className] = <<feature>> \o @])

RECURSIVE groupFeatures(_, _)
groupFeatures(features, featuresByClass) ==
    IF features = <<>> THEN featuresByClass
    ELSE LET feature   == Head(features)
             className == PropertyKey(feature.category)
             withKey   == IF className \in DOMAIN featuresByClass
                          THEN featuresByClass
                          ELSE featuresByClass @@ (className :> <<>>)
         IN  groupFeatures(Tail(features),
                 [withKey EXCEPT ![className] = Append(@, feature)])

\* the forEach of LandUseMap.processData: three fixed buckets, a feature is
\* pushed only when its class names one of them
RECURSIVE groupLandFeatures(_, _)
groupLandFeatures(features, featuresByClass) ==
    IF features = <<>> THEN featuresByClass
    ELSE LET feature   == Head(features)
             className == PropertyKey(feature.category)
         IN  groupLandFeatures(Tail(features),
                 IF className \in DOMAIN featuresByClass
                 THEN [featuresByClass EXCEPT ![className] = Append(@, feature)]
                 ELSE featuresByClass)

classify(s, features) ==
    IF s = Land
    THEN groupLandFeatures(features, [c \in LandClassStyles |-> <<>>])
    ELSE groupFeatures(features, EmptyMap)

\* featuresByClass is an object literal, so featuresByClass[className] of a
\* className that names an inherited property is that property (truthy, and
\* no array): no bucket is created and the push throws a TypeError
pushThrows(features) ==
    \E i \in DOMAIN features :
        PropertyKey(features[i].category) \in ObjectPrototypeKeys

\* ------------------------------------------------------------ layer set
\* faulty variant: a category without a table entry gets no style
styleOfNoFallback(s, className) ==
    IF className \in StyleKeys(s) THEN className ELSE None

\* style of a new layer: the table entry, else the script's fallback entry
styleOf(s, className) ==
    IF className \in StyleKeys(s) THEN className
    ELSE CASE s = India -> "fra_area"
           [] s = FRA   -> "IFR"
           [] s = Land  -> None

\* L.geoJSON(features, {style}) for every bucket that has features; gen
\* names the response the layer object was built from
newLayers(s, grouped, gen) ==
    [k \in {c \in DOMAIN grouped : Len(grouped[c]) > 0} |->
        [name |-> k, features |-> grouped[k], style |-> styleOf(s, k),
         gen |-> gen]]

\* faulty variant: the tracked layers are forgotten without being removed
clearLayersKeep(ls, m) == m

\* "Clear existing layers": every tracked layer the map has is removed
clearLayers(ls, m) == m \ Range(ls)

\* the checkbox element looked up for a category
checkboxId(s, className) == IF s = FRA THEN toLowerCase(className) ELSE className

\* faulty variant: the checkbox is looked up but its checked state is not read
layerEnabledUnchecked(s, cb, className) ==
    checkboxId(s, className) \in DOMAIN cb

\* faulty variant: a new layer is attached whatever its checkbox says
layerEnabledAlways(s, cb, className) == TRUE

\* "Add to map if layer is enabled"
layerEnabled(s, cb, className) ==
    /\ checkboxId(s, className) \in DOMAIN cb
    /\ cb[checkboxId(s, className)]

\* faulty variant: the new layers are attached next to the old ones
mapAfterProcessNoClear(s, ls, m, cb, built) ==
    m \cup {built[k] : k \in {c \in DOMAIN built : layerEnabled(s, cb, c)}}

\* map after processData / processClaimsData of IndiaLandUseMap and FRAWebGIS
mapAfterProcess(s, ls, m, cb, built) ==
    clearLayers(ls, m) \cup {built[k] : k \in {c \in DOMAIN built : layerEnabled(s, cb, c)}}

\* count-<className> elements after processData (IndiaLandUseMap only)
countsAfterProcess(s, cnt, built) ==
    IF s = India
    THEN [k \in DOMAIN cnt |->
             IF k \in DOMAIN built THEN Len(built[k].features) ELSE cnt[k]]
    ELSE cnt

\* faulty variant: the call flips the attachment instead of setting it
toggleLayerFlip(ls, m, layerName, visible) ==
    IF layerName \in DOMAIN ls
    THEN IF ls[layerName] \in m THEN m \ {ls[layerName]}
                                ELSE m \cup {ls[layerName]}
    ELSE m

\* faulty variant: the layer is handed to the map without the test that the
\* category has one
toggleLayerUnguarded(ls, m, layerName, visible) ==
    LET layer == IF layerName \in DOMAIN ls THEN ls[layerName] ELSE None
    IN  IF visible THEN m \cup {layer} ELSE m \ {layer}

\* IndiaLandUseMap.toggleLayer
toggleLayer(ls, m, layerName, visible) ==
    IF layerName \in DOMAIN ls
    THEN IF visible THEN m \cup {ls[layerName]} ELSE m \ {ls[layerName]}
    ELSE m

\* faulty variant: hiding one type takes every tracked layer off the map
toggleLayerFRAHideAll(ls, m, fraType, visible) ==
    IF fraType \in DOMAIN ls
    THEN IF visible
         THEN IF ls[fraType] \notin m THEN m \cup {ls[fraType]} ELSE m
         ELSE m \ Range(ls)
    ELSE m

\* FRAWebGIS.toggleLayer
toggleLayerFRA(ls, m, fraType, visible) ==
    IF fraType \in DOMAIN ls
    THEN IF visible
         THEN IF ls[fraType] \notin m THEN m \cup {ls[fraType]} ELSE m
         ELSE IF ls[fraType] \in m THEN m \ {ls[fraType]} ELSE m
    ELSE m

\* LandUseMap.showLayer / hideLayer
showLayer(ls, m, className) ==
    IF className \in DOMAIN ls /\ ls[className] \notin m
    THEN m \cup {ls[className]} ELSE m
hideLayer(ls, m, className) ==
    IF className \in DOMAIN ls /\ ls[className] \in m
    THEN m \ {ls[className]} ELSE m

\* LandUseMap.showAllLayers / hideAllLayers
showAllLayers(ls, m) == m \cup Range(ls)
hideAllLayers(ls, m) == m \ Range(ls)

\* one entry point for the three scripts' visibility call
setVisibility(s, ls, m, className, visible) ==
    CASE s = India -> toggleLayer(ls, m, className, visible)
      [] s = FRA   -> toggleLayerFRA(ls, m, className, visible)
      [] s = Land  -> IF visible THEN showLayer(ls, m, className)
                                 ELSE hideLayer(ls, m, className)

\* ---------------------------------------------------------------- filters
\* faulty variant: the collected values are stored as they are
removeEmptyKeepAll(fields) == fields

\* "Remove empty filters": Object.entries(...).filter(([_, value]) => value)
removeEmpty(fields) ==
    [f \in {g \in DOMAIN fields : fields[g] # ""} |-> fields[f]]

\* ------------------------------------------------------------ responses
\* what a data fetch can come back with:
\*   reject      the fetch, or the JSON parse of the body, rejects
\*   httpError   a non-success status whose JSON body carries features
\*   error       a body with an error field
\*   nofeatures  a body with neither an error field nor a features sequence
\*   features    a success status and a body with a features sequence
Kinds == {"reject", "httpError", "error", "nofeatures", "features"}
hasFeatures(kind) == kind \in {"httpError", "features"}

\* faulty variant: the error field of the payload is not looked at
loadDataChecksNoError(kind) == kind # "reject"

\* whether the script reaches its processData call with such a response
loadDataChecks(kind) == kind \notin {"reject", "error"}
loadClaimsChecks(kind) ==
    /\ kind # "reject"
    /\ kind # "httpError"
    /\ kind # "error"
    /\ kind # "nofeatures"
landLoadDataChecks(kind) == kind \notin {"reject", "error"}

\* the data fetch of loadInitialData is still to be issued
InitialFetchAhead == initPc \in {"filterOptions", "layers", "performance"}

\* the layer checkboxes of the categories that occur in the responses
FRACheckboxes  == {"ifr", "cfr"}
LandCheckboxes == {"layer-toggle", "water", "forest"}
\* keys of a /api/layers response
LayerKeys == {"water"}

\* ------------------------------------------------------------------ Init
Init ==
    /\ script \in Scripts
    /\ initPc = IF script = Land THEN "status" ELSE "filterOptions"
    /\ checkbox \in CASE script = India -> {EmptyMap}
                      [] script = FRA   -> [FRACheckboxes -> BOOLEAN]
                      [] script = Land  -> [LandCheckboxes -> BOOLEAN]
    /\ currentFilters = EmptyMap
    /\ pending = {}
    /\ reqCount = 0
    /\ layers = EmptyMap
    /\ mapLayers = {}
    /\ counts = EmptyMap
    /\ featureCount = <<>>
    /\ status = IF script = Land THEN "loading" ELSE None
    /\ newest = None
    /\ lastKind = None
    /\ lastResult = None
    /\ lastInput = <<>>
    /\ lastGrouped = EmptyMap
    /\ lastVis = EmptyMap
    /\ builtFrom = 0
    /\ builtParams = {}
    /\ exports = {}
    /\ exportCount = 0
    /\ detailFetches = <<>>
    /\ modal = <<>>
    /\ detailResult = None

\* new URLSearchParams(obj): one (name, value) pair per property of obj
URLSearchParams(obj) == {<<f, obj[f]>> : f \in DOMAIN obj}

\* faulty variant: the fetch is sent twice
issueFetchTwice(params, initial) ==
    /\ pending' = pending \cup
           {[id |-> reqCount + 1, params |-> params, initial |-> initial],
            [id |-> reqCount + 2, params |-> params, initial |-> initial]}
    /\ reqCount' = reqCount + 2
    /\ newest' = "pending"

\* fetch(`/api/data?${params}`): params is the encoded query
issueFetch(params, initial) ==
    /\ pending' = pending \cup
           {[id |-> reqCount + 1, params |-> params, initial |-> initial]}
    /\ reqCount' = reqCount + 1
    /\ newest' = "pending"

\* ---------------------------------------------------- loadInitialData
\* loadFilterOptions returns (its catch swallows a failure); the next step
\* of loadInitialData issues its fetch
LoadFilterOptionsDone ==
    /\ initPc = "filterOptions"
    /\ initPc' = IF script = India THEN "layers" ELSE "performance"
    /\ UNCHANGED <<exportVars, detailVars>>
    /\ UNCHANGED <<script, checkbox, currentFilters, pending, reqCount, layers,
                   mapLayers, counts, featureCount, status, newest, lastKind, lastResult,
                   lastInput, lastGrouped, lastVis, builtFrom, builtParams>>

\* faulty variant: a failure of loadLayers escapes to loadInitialData, whose
\* catch block ends the initial load
LoadLayersDoneEscapes(success, visible) ==
    /\ script = India /\ initPc = "layers"
    /\ IF success
       THEN /\ checkbox' = visible
            /\ counts' = [k \in DOMAIN visible |-> 0]
            /\ issueFetch(URLSearchParams(currentFilters), TRUE)
            /\ initPc' = "data"
       ELSE /\ initPc' = "done"
            /\ UNCHANGED <<checkbox, counts, pending, reqCount, newest>>
    /\ UNCHANGED <<exportVars, detailVars>>
    /\ UNCHANGED <<script, currentFilters, layers, mapLayers, featureCount,
                   status, lastKind, lastResult, lastInput, lastGrouped, lastVis, builtFrom, builtParams>>

\* IndiaLandUseMap.loadLayers returns: on success one checkbox and one count
\* element per key of the response; then loadInitialData calls loadData
LoadLayersDone(success, visible) ==
    /\ script = India /\ initPc = "layers"
    /\ IF success
       THEN /\ checkbox' = visible
            /\ counts' = [k \in DOMAIN visible |-> 0]
       ELSE UNCHANGED <<checkbox, counts>>
    /\ issueFetch(URLSearchParams(currentFilters), TRUE)
    /\ initPc' = "data"
    /\ UNCHANGED <<exportVars, detailVars>>
    /\ UNCHANGED <<script, currentFilters, layers, mapLayers, featureCount,
                   status, lastKind, lastResult, lastInput, lastGrouped, lastVis, builtFrom, builtParams>>

\* FRAWebGIS.loadPerformanceMetrics returns; loadInitialData calls loadClaims
LoadPerformanceMetricsDone ==
    /\ script = FRA /\ initPc = "performance"
    /\ issueFetch(URLSearchParams(currentFilters), TRUE)
    /\ initPc' = "data"
    /\ UNCHANGED <<exportVars, detailVars>>
    /\ UNCHANGED <<script, checkbox, currentFilters, layers, mapLayers, counts,
                   featureCount, status, lastKind, lastResult, lastInput, lastGrouped,
                   lastVis, builtFrom, builtParams>>

\* IndiaLandUseMap.loadStatistics returns; loadFRAProgress is called
LoadStatisticsDone ==
    /\ script = India /\ initPc = "statistics"
    /\ initPc' = "progress"
    /\ UNCHANGED <<exportVars, detailVars>>
    /\ UNCHANGED <<script, checkbox, currentFilters, pending, reqCount, layers,
                   mapLayers, counts, featureCount, status, newest, lastKind, lastResult,
                   lastInput, lastGrouped, lastVis, builtFrom, builtParams>>

\* IndiaLandUseMap.loadFRAProgress returns
LoadFRAProgressDone ==
    /\ script = India /\ initPc = "progress"
    /\ initPc' = "done"
    /\ UNCHANGED <<exportVars, detailVars>>
    /\ UNCHANGED <<script, checkbox, currentFilters, pending, reqCount, layers,
                   mapLayers, counts, featureCount, status, newest, lastKind, lastResult,
                   lastInput, lastGrouped, lastVis, builtFrom, builtParams>>

\* ---------------------------------------------------------------- filters
\* a session issues at most max data fetches, the one of loadInitialData
\* among them
reloadAllowed(max) ==
    reqCount < max - (IF InitialFetchAhead THEN 1 ELSE 0)

\* applyFilters of IndiaLandUseMap and FRAWebGIS; fields are the values the
\* filter form holds when the button is clicked
applyFilters(fields, max) ==
    /\ script \in {India, FRA}
    /\ reloadAllowed(max)
    /\ currentFilters' = removeEmpty(fields)
    /\ issueFetch(URLSearchParams(currentFilters'), FALSE)
    /\ UNCHANGED <<exportVars, detailVars>>
    /\ UNCHANGED <<script, initPc, checkbox, layers, mapLayers, counts,
                   featureCount, status, lastKind, lastResult, lastInput, lastGrouped,
                   lastVis, builtFrom, builtParams>>

\* faulty variant: the inputs are reset but this.currentFilters is kept
clearFiltersKeep(max) ==
    /\ script \in {India, FRA}
    /\ reloadAllowed(max)
    /\ issueFetch(URLSearchParams(currentFilters), FALSE)
    /\ UNCHANGED <<exportVars, detailVars>>
    /\ UNCHANGED <<script, initPc, checkbox, currentFilters, layers, mapLayers,
                   counts, featureCount, status, lastKind, lastResult,
                   lastInput, lastGrouped, lastVis, builtFrom, builtParams>>

\* clearFilters of IndiaLandUseMap and FRAWebGIS
clearFilters(max) ==
    /\ script \in {India, FRA}
    /\ reloadAllowed(max)
    /\ currentFilters' = EmptyMap
    /\ issueFetch(URLSearchParams(currentFilters'), FALSE)
    /\ UNCHANGED <<exportVars, detailVars>>
    /\ UNCHANGED <<script, initPc, checkbox, layers, mapLayers, counts,
                   featureCount, status, lastKind, lastResult, lastInput, lastGrouped,
                   lastVis, builtFrom, builtParams>>

ApplyFilters(fields) == applyFilters(fields, MaxReloads)
ClearFilters == clearFilters(MaxReloads)

\* ------------------------------------------------------- data responses
\* the catch block of loadData / loadClaims: showError, nothing else
loadFailed(r) ==
    /\ lastResult' = "failed"
    /\ newest' = IF r.id = reqCount THEN "failed" ELSE newest
    /\ UNCHANGED <<layers, mapLayers, counts, featureCount, lastInput,
                   lastGrouped, builtFrom, builtParams>>

\* processData / processClaimsData followed by updateFeatureCount.  The
\* tracked layers are cleared first; a payload without a features sequence
\* then throws at geojsonData.features.forEach, and a push that throws ends
\* the grouping: in both cases the catch block runs.
processData(r, kind, cs) ==
    LET grouped == classify(script, FeaturesOf(cs))
        built   == newLayers(script, grouped, r.id)
    IN  /\ builtFrom' = r.id
        /\ builtParams' = r.params
        /\ IF hasFeatures(kind) /\ pushThrows(FeaturesOf(cs))
           THEN /\ layers' = EmptyMap
                /\ mapLayers' = clearLayers(layers, mapLayers)
                /\ lastInput' = FeaturesOf(cs)
                /\ lastGrouped' = EmptyMap
                /\ lastResult' = "failed"
                /\ newest' = IF r.id = reqCount THEN "failed" ELSE newest
                /\ UNCHANGED <<counts, featureCount>>
           ELSE IF hasFeatures(kind)
           THEN /\ layers' = built
                /\ mapLayers' = mapAfterProcess(script, layers, mapLayers,
                                                checkbox, built)
                /\ counts' = countsAfterProcess(script, counts, built)
                /\ featureCount' = <<Len(cs)>>
                /\ lastInput' = FeaturesOf(cs)
                /\ lastGrouped' = grouped
                /\ lastResult' = "loaded"
                /\ newest' = IF r.id = reqCount THEN "loaded" ELSE newest
           ELSE /\ layers' = EmptyMap
                /\ mapLayers' = clearLayers(layers, mapLayers)
                /\ lastResult' = "failed"
                /\ newest' = IF r.id = reqCount THEN "failed" ELSE newest
                /\ UNCHANGED <<counts, featureCount, lastInput, lastGrouped>>

\* faulty variant: the fetch stays in flight after its response was handled
responseTakenKept(r, kind, cs) ==
    /\ r \in pending
    /\ pending' = pending
    /\ lastKind' = kind

\* the response of one pending fetch is taken up
responseTaken(r, kind, cs) ==
    /\ r \in pending
    /\ pending' = pending \ {r}
    /\ lastKind' = kind

\* IndiaLandUseMap.loadData from its first await on
LoadData(r, kind, cs) ==
    /\ script = India
    /\ responseTaken(r, kind, cs)
    /\ IF loadDataChecks(kind) THEN processData(r, kind, cs)
                               ELSE loadFailed(r)
    /\ initPc' = IF r.initial THEN "statistics" ELSE initPc
    /\ UNCHANGED <<exportVars, detailVars>>
    /\ UNCHANGED <<script, checkbox, currentFilters, reqCount, status, lastVis>>

\* FRAWebGIS.loadClaims from its first await on
LoadClaims(r, kind, cs) ==
    /\ script = FRA
    /\ responseTaken(r, kind, cs)
    /\ IF loadClaimsChecks(kind) THEN processData(r, kind, cs)
                                 ELSE loadFailed(r)
    /\ initPc' = IF r.initial THEN "done" ELSE initPc
    /\ UNCHANGED <<exportVars, detailVars>>
    /\ UNCHANGED <<script, checkbox, currentFilters, reqCount, status, lastVis>>

\* LandUseMap.loadData after `await fetch('/status')`
StatusKinds == {"reject", "unavailable", "available"}
\* faulty variant: data_available is not looked at
LandStatusResponseUnchecked(kind) ==
    /\ script = Land /\ initPc = "status"
    /\ IF kind # "reject"
       THEN /\ issueFetch({}, TRUE)
            /\ initPc' = "data"
            /\ UNCHANGED status
       ELSE /\ status' = "error"
            /\ initPc' = "done"
            /\ UNCHANGED <<pending, reqCount, newest>>
    /\ UNCHANGED <<exportVars, detailVars>>
    /\ UNCHANGED <<script, checkbox, currentFilters, layers, mapLayers, counts,
                   featureCount, lastKind, lastResult, lastInput, lastGrouped, lastVis,
                   builtFrom, builtParams>>

LandStatusResponse(kind) ==
    /\ script = Land /\ initPc = "status"
    /\ IF kind = "available"
       THEN /\ issueFetch({}, TRUE)
            /\ initPc' = "data"
            /\ UNCHANGED status
       ELSE /\ status' = "error"
            /\ initPc' = "done"
            /\ UNCHANGED <<pending, reqCount, newest>>
    /\ UNCHANGED <<exportVars, detailVars>>
    /\ UNCHANGED <<script, checkbox, currentFilters, layers, mapLayers, counts,
                   featureCount, lastKind, lastResult, lastInput, lastGrouped, lastVis,
                   builtFrom, builtParams>>

\* LandUseMap.processData: a layer per class that has features, stored over
\* the slot of that class, then showAllLayers
landProcessData(r, cs) ==
    LET grouped == classify(Land, FeaturesOf(cs))
        built   == newLayers(Land, grouped, r.id)
    IN  /\ layers' = built @@ layers
        /\ mapLayers' = showAllLayers(layers', mapLayers)
        /\ lastInput' = FeaturesOf(cs)
        /\ lastGrouped' = grouped
        /\ builtFrom' = r.id
        /\ builtParams' = r.params

\* LandUseMap.loadData after `await fetch('/data')`; the status element
\* shows the feature total
LandLoadData(r, kind, cs) ==
    /\ script = Land
    /\ responseTaken(r, kind, cs)
    /\ IF landLoadDataChecks(kind) /\ hasFeatures(kind)
          /\ ~pushThrows(FeaturesOf(cs))
       THEN /\ landProcessData(r, cs)
            /\ featureCount' = <<Len(cs)>>
            /\ status' = "success"
            /\ lastResult' = "loaded"
            /\ newest' = "loaded"
       ELSE /\ status' = "error"
            /\ lastResult' = "failed"
            /\ newest' = "failed"
            /\ UNCHANGED <<layers, mapLayers, featureCount, lastInput,
                           lastGrouped, builtFrom, builtParams>>
    /\ initPc' = "done"
    /\ UNCHANGED <<exportVars, detailVars>>
    /\ UNCHANGED <<script, checkbox, currentFilters, reqCount, counts, lastVis>>

\* ------------------------------------------------------------ visibility
\* the category a layer checkbox stands for
categoryOf(s, box) ==
    IF s = FRA
    THEN CASE box = "ifr" -> "IFR" [] box = "cfr" -> "CFR" [] box = "cr" -> "CR"
    ELSE box

\* change event of a layer checkbox (IndiaLandUseMap, FRAWebGIS) or of a
\* class toggle (LandUseMap)
ToggleLayer(box) ==
    /\ box \in DOMAIN checkbox /\ box # "layer-toggle"
    /\ checkbox' = [checkbox EXCEPT ![box] = ~@]
    /\ mapLayers' = setVisibility(script, layers, mapLayers,
                                  categoryOf(script, box), checkbox'[box])
    /\ lastVis' = [c \in DOMAIN lastVis \cup {categoryOf(script, box)} |->
                      IF c = categoryOf(script, box) THEN checkbox'[box]
                      ELSE lastVis[c]]
    /\ UNCHANGED <<exportVars, detailVars>>
    /\ UNCHANGED <<script, initPc, currentFilters, pending, reqCount, layers,
                   counts, featureCount, status, newest, lastKind, lastResult, lastInput,
                   lastGrouped, builtFrom, builtParams>>

\* change event of LandUseMap's main layer toggle
ToggleAllLayers ==
    /\ script = Land
    /\ checkbox' = [checkbox EXCEPT !["layer-toggle"] = ~@]
    /\ mapLayers' = IF checkbox'["layer-toggle"]
                    THEN showAllLayers(layers, mapLayers)
                    ELSE hideAllLayers(layers, mapLayers)
    /\ UNCHANGED <<exportVars, detailVars>>
    /\ UNCHANGED <<script, initPc, currentFilters, pending, reqCount, layers,
                   counts, featureCount, status, newest, lastKind, lastResult, lastInput,
                   lastGrouped, lastVis, builtFrom, builtParams>>

\* ---------------------------------------------------------------- export
\* faulty variant: the export request is built without the filters
ExportDataNoFilters ==
    /\ script \in {India, FRA}
    /\ exportCount < MaxExports
    /\ exports' = exports \cup {[id |-> exportCount + 1, query |-> {}]}
    /\ exportCount' = exportCount + 1
    /\ UNCHANGED detailVars
    /\ UNCHANGED <<script, initPc, checkbox, currentFilters, pending, reqCount,
                   layers, mapLayers, counts, featureCount, status, newest,
                   lastKind, lastResult, lastInput, lastGrouped, lastVis,
                   builtFrom, builtParams>>

\* exportData of IndiaLandUseMap and FRAWebGIS up to its first await
ExportData ==
    /\ script \in {India, FRA}
    /\ exportCount < MaxExports
    /\ exports' = exports \cup
           {[id |-> exportCount + 1, query |-> URLSearchParams(currentFilters)]}
    /\ exportCount' = exportCount + 1
    /\ UNCHANGED detailVars
    /\ UNCHANGED <<script, initPc, checkbox, currentFilters, pending, reqCount,
                   layers, mapLayers, counts, featureCount, status, newest,
                   lastKind, lastResult, lastInput, lastGrouped, lastVis,
                   builtFrom, builtParams>>

\* exportData after its awaits: the file is downloaded, or the catch block
\* shows the error; the map state is not touched either way
ExportResponse(e) ==
    /\ e \in exports
    /\ exports' = exports \ {e}
    /\ UNCHANGED <<exportCount, detailVars>>
    /\ UNCHANGED <<script, initPc, checkbox, currentFilters, pending, reqCount,
                   layers, mapLayers, counts, featureCount, status, newest,
                   lastKind, lastResult, lastInput, lastGrouped, lastVis,
                   builtFrom, builtParams>>

\* --------------------------------------------------------- claim details
\* the claims whose popup can be opened: the features of the layers on the map
claimsOnMap ==
    UNION {{layers[k].features[j].id : j \in DOMAIN layers[k].features} :
              k \in {c \in DOMAIN layers : layers[c] \in mapLayers}}

\* FRAWebGIS.showClaimDetails up to its first await, called by the
\* "View Details" button of a claim's popup
ShowClaimDetails(claimId) ==
    /\ script = FRA
    /\ claimId \in claimsOnMap
    /\ Len(detailFetches) < MaxDetails
    /\ detailFetches' =
           Append(detailFetches, [claimId |-> claimId, outcome |-> "pending"])
    /\ UNCHANGED <<modal, detailResult, exportVars>>
    /\ UNCHANGED <<script, initPc, checkbox, currentFilters, pending, reqCount,
                   layers, mapLayers, counts, featureCount, status, newest,
                   lastKind, lastResult, lastInput, lastGrouped, lastVis,
                   builtFrom, builtParams>>

\* what a detail fetch can come back with: a rejection, a payload with an
\* error field, the record of the claim
DetailKinds == {"reject", "error", "record"}

\* faulty variant: the catch block displays what it received
detailFailedDisplays(i) ==
    /\ modal' = <<[claim_id |-> 0]>>
    /\ detailResult' = "failed"

\* the catch block of showClaimDetails: showError, nothing else
detailFailed(i) ==
    /\ detailResult' = "failed"
    /\ UNCHANGED modal

\* displayClaimDetails and the claim modal set to display: block
displayClaimDetails(i) ==
    /\ modal' = <<[claim_id |-> detailFetches[i].claimId]>>
    /\ detailResult' = "shown"

\* FRAWebGIS.showClaimDetails after its awaits, for the i-th fetch
DetailResponse(i, kind) ==
    /\ i \in DOMAIN detailFetches
    /\ detailFetches[i].outcome = "pending"
    /\ IF kind = "record" THEN displayClaimDetails(i) ELSE detailFailed(i)
    /\ detailFetches' =
           [detailFetches EXCEPT ![i].outcome = detailResult']
    /\ UNCHANGED exportVars
    /\ UNCHANGED <<script, initPc, checkbox, currentFilters, pending, reqCount,
                   layers, mapLayers, counts, featureCount, status, newest,
                   lastKind, lastResult, lastInput, lastGrouped, lastVis,
                   builtFrom, builtParams>>

\* ------------------------------------------------------------------ Next
\* the response of a data fetch: its kind drawn from kinds, its features
\* from collections
DataResponse(kinds, collections) ==
    \E r \in pending, kind \in kinds :
    \E cs \in IF hasFeatures(kind) THEN collections ELSE {<<>>} :
        \/ LoadData(r, kind, cs)
        \/ LoadClaims(r, kind, cs)
        \/ LandLoadData(r, kind, cs)

\* the steps of init / loadInitialData other than the data response
InitialLoadStep ==
    \/ LoadFilterOptionsDone
    \/ \E success \in BOOLEAN, visible \in [LayerKeys -> BOOLEAN] :
          LoadLayersDone(success, visible)
    \/ LoadPerformanceMetricsDone
    \/ LoadStatisticsDone
    \/ LoadFRAProgressDone
    \/ \E kind \in StatusKinds : LandStatusResponse(kind)

\* Layers and visibility: reloads, responses with up to MaxFeatures features
\* of the reload categories, and the layer checkboxes.  The filter form is
\* left empty and every response has a success status.
Next ==
    \/ InitialLoadStep
    \/ \E fields \in ReloadForms : ApplyFilters(fields)
    \/ ClearFilters
    \/ DataResponse(Kinds \ {"httpError"}, ReloadSeqs(script))
    \/ \E box \in DOMAIN checkbox : ToggleLayer(box)
    \/ ToggleAllLayers

Spec == Init /\ [][Next]_vars

\* Visibility across reloads: the layer checkboxes and the master toggle
\* while reloads are in flight; a fetch is rejected, answered without a
\* features sequence, or answered with up to MaxFeatures features of the
\* reload categories.
NextVisibility ==
    \/ InitialLoadStep
    \/ \E fields \in ReloadForms : ApplyFilters(fields)
    \/ DataResponse({"reject", "nofeatures", "features"}, ReloadSeqs(script))
    \/ \E box \in DOMAIN checkbox : ToggleLayer(box)
    \/ ToggleAllLayers

SpecVisibility == Init /\ [][NextVisibility]_vars

\* The initial load alone, with every kind of response and every feature
\* collection up to MaxFeatures.
NextInitialLoad ==
    \/ InitialLoadStep
    \/ DataResponse(Kinds, CategorySeqs(script))

SpecInitialLoad == Init /\ [][NextInitialLoad]_vars

\* Filters and overlapping reloads: every filter form and every kind of
\* response, with collections of at most one feature.
NextReloads ==
    \/ InitialLoadStep
    \/ \E fields \in [FilterFields -> FilterValues] : ApplyFilters(fields)
    \/ ClearFilters
    \/ DataResponse(Kinds, ShortSeqs(script))

SpecReloads == Init /\ [][NextReloads]_vars

\* Reloads when every fetch is answered: the response or rejection of each
\* issued data fetch, and of each fetch that loadInitialData and
\* LandUseMap.loadData await, eventually arrives.  Every kind of response,
\* collections of at most one feature, the filter form left empty.
ResponseOf(id) ==
    \E r \in pending, kind \in Kinds :
    \E cs \in IF hasFeatures(kind) THEN ShortSeqs(script) ELSE {<<>>} :
        /\ r.id = id
        /\ \/ LoadData(r, kind, cs)
           \/ LoadClaims(r, kind, cs)
           \/ LandLoadData(r, kind, cs)

NextAnswered ==
    \/ InitialLoadStep
    \/ \E fields \in ReloadForms : ApplyFilters(fields)
    \/ \E id \in 1..MaxReloads : ResponseOf(id)

SpecReloadsFair ==
    /\ Init /\ [][NextAnswered]_vars
    /\ WF_vars(InitialLoadStep)
    /\ \A id \in 1..MaxReloads : WF_vars(ResponseOf(id))

\* The filters: every filter form, clearFilters, exports and up to
\* MaxFilterReloads data fetches, each answered with an empty collection.
NextFilters ==
    \/ InitialLoadStep
    \/ \E fields \in FilterForms : applyFilters(fields, MaxFilterReloads)
    \/ clearFilters(MaxFilterReloads)
    \/ DataResponse({"features"}, {<<>>})
    \/ ExportData
    \/ \E e \in exports : ExportResponse(e)

SpecFilters == Init /\ [][NextFilters]_vars

\* Exports: filters applied and cleared, layers loaded, shown and hidden,
\* and up to MaxExports export fetches that succeed or fail.
NextExport ==
    \/ InitialLoadStep
    \/ \E fields \in FilterForms : ApplyFilters(fields)
    \/ ClearFilters
    \/ DataResponse({"features"}, ShortSeqs(script))
    \/ \E box \in DOMAIN checkbox : ToggleLayer(box)
    \/ ExportData
    \/ \E e \in exports : ExportResponse(e)

SpecExport == Init /\ [][NextExport]_vars

\* Claim details: the initial load with every kind of response, the layer
\* checkboxes, and up to MaxDetails detail fetches.
NextDetails ==
    \/ InitialLoadStep
    \/ DataResponse(Kinds, ShortSeqs(script))
    \/ \E box \in DOMAIN checkbox : ToggleLayer(box)
    \/ \E claimId \in 1..MaxFeatures : ShowClaimDetails(claimId)
    \/ \E i \in DOMAIN detailFetches, kind \in DetailKinds :
          DetailResponse(i, kind)

SpecDetails == Init /\ [][NextDetails]_vars

\* Claim details of several claims: the initial load answered with up to
\* MaxFeatures claims, the layer checkboxes, and up to MaxDetails detail
\* fetches answered in any order.
NextDetailOrder ==
    \/ InitialLoadStep
    \/ DataResponse({"features"}, ReloadSeqs(script))
    \/ \E box \in DOMAIN checkbox : ToggleLayer(box)
    \/ \E claimId \in 1..MaxFeatures : ShowClaimDetails(claimId)
    \/ \E i \in DOMAIN detailFetches, kind \in DetailKinds :
          DetailResponse(i, kind)

SpecDetailOrder == Init /\ [][NextDetailOrder]_vars

\* A whole session: the initial load and one reload with every kind of
\* response, the layer checkboxes, exports and claim details.
NextSession ==
    \/ NextDetails
    \/ \E fields \in ReloadForms : ApplyFilters(fields)
    \/ ExportData
    \/ \E e \in exports : ExportResponse(e)

SpecSession == Init /\ [][NextSession]_vars

\* ------------------------------------------------------------ properties
\* a step that takes up the response of a data fetch
Responded == pending' # pending /\ pending' \subseteq pending

\* the categories whose registered layer is on the map
attached(ls, m) == {k \in DOMAIN ls : ls[k] \in m}

\* C1: last request wins.  Once every response has been handled and the
\* newest request has loaded, the registered layers are the ones built from
\* the newest request's response.
LastRequestWins ==
    (script \in {India, FRA} /\ pending = {} /\ newest = "loaded")
        => builtFrom = reqCount

\* C2: a reload whose fetch rejects or whose payload has an error field
\* never reaches layer processing: registered layers, attachment, the
\* per-category counts and the displayed total keep their values, and the
\* error is reported.
FailedReloadKeepsLayers ==
    [][(Responded /\ lastKind' \in {"reject", "error"})
          => /\ UNCHANGED <<layers, mapLayers, counts, featureCount>>
             /\ UNCHANGED <<lastInput, lastGrouped, builtFrom>>
             /\ lastResult' = "failed"]_vars

FailedReloadWitness ==
    /\ lastKind \in {"reject", "error"}
    /\ lastResult = "failed"
    /\ mapLayers # {}
    /\ Cardinality(DOMAIN layers) >= 2
    /\ featureCount # <<>>

\* C3: a reload whose payload has no features sequence fails and leaves the
\* registered layers and their attachment as they were.
MalformedPayloadKeepsLayers ==
    [][(Responded /\ lastKind' = "nofeatures")
          => /\ UNCHANGED <<layers, mapLayers>>
             /\ lastResult' = "failed"]_vars

\* C4: a response with a non-success status is a failed reload in every
\* script: its body is not processed and the layers stay.
HttpErrorIsFailure ==
    [][(Responded /\ lastKind' = "httpError")
          => /\ UNCHANGED <<layers, mapLayers, lastInput, lastGrouped>>
             /\ lastResult' = "failed"]_vars

\* the places <<key, index>> of a grouping
Places(grouped) ==
    UNION {{<<k, j>> : j \in 1..Len(grouped[k])} : k \in DOMAIN grouped}

\* C5: the classification of IndiaLandUseMap and FRAWebGIS is a partition:
\* each input feature sits at exactly one place, in the bucket keyed by its
\* category (the key "undefined" for an absent category), every place holds
\* an input feature, and the bucket sizes add up to the input length
\* (lastInput is the collection handed to the grouping, lastGrouped what the
\* grouping produced of it).
ClassificationIsPartition ==
    script \in {India, FRA} =>
        /\ \A i \in 1..Len(lastInput) :
              LET f == lastInput[i]
                  at == {p \in Places(lastGrouped) : lastGrouped[p[1]][p[2]] = f}
              IN  /\ Cardinality(at) = 1
                  /\ \A p \in at : p[1] = PropertyKey(f.category)
        /\ \A p \in Places(lastGrouped) :
              \E i \in 1..Len(lastInput) : lastInput[i] = lastGrouped[p[1]][p[2]]
        /\ Cardinality(Places(lastGrouped)) = Len(lastInput)

\* C6: in every script a feature whose category is absent or has no style
\* is kept by the classification, in the bucket keyed by its category value.
UnstyledNeverDropped ==
    \A i \in 1..Len(lastInput) :
        LET f == lastInput[i]
            key == PropertyKey(f.category)
        IN  (f.category = Missing \/ f.category \notin StyleKeys(script))
               => /\ key \in DOMAIN lastGrouped
                  /\ \E j \in 1..Len(lastGrouped[key]) : lastGrouped[key][j] = f

\* C7: a successful reload leaves exactly one registered layer per
\* non-empty bucket of its response, built from that response; the layers
\* tracked before are off the map and gone from the registry.
ReplaceDiscardsOldLayers ==
    [][(Responded /\ lastResult' = "loaded")
          => /\ DOMAIN layers' =
                   {k \in DOMAIN lastGrouped' : lastGrouped'[k] # <<>>}
             /\ \A k \in DOMAIN layers' :
                   /\ layers'[k].features = lastGrouped'[k]
                   /\ layers'[k].gen = builtFrom'
             /\ \A old \in Range(layers) :
                   old \notin Range(layers') /\ old \notin mapLayers'
             /\ mapLayers' \subseteq Range(layers')]_vars

ReplaceWitness ==
    /\ lastResult = "loaded"
    /\ builtFrom = 2
    /\ reqCount = 2 /\ pending = {}
    /\ featureCount = <<1>>
    /\ mapLayers # {}

\* the stored visibility preference of a category: its checkbox, visible
\* when it has none
preferredVisible(k) ==
    checkboxId(script, k) \in DOMAIN checkbox => checkbox[checkboxId(script, k)]

\* C8: right after a replace the attached categories are exactly the ones
\* the stored preferences mark visible, a category without a stored
\* preference counting as visible.
ReplaceAttachesPreferred ==
    [][(Responded /\ lastResult' = "loaded")
          => attached(layers', mapLayers') =
                {k \in DOMAIN layers' : preferredVisible(k)}]_vars

\* C9: in IndiaLandUseMap and FRAWebGIS a category's layer is attached iff
\* the last toggleLayer call for the category said visible, whatever
\* reloads were processed since that call.
VisibilitySurvivesReload ==
    script \in {India, FRA} =>
        \A c \in DOMAIN lastVis :
            c \in DOMAIN layers => (layers[c] \in mapLayers <=> lastVis[c])

VisibilityWitness ==
    \E c \in DOMAIN lastVis \cap DOMAIN layers :
        /\ ~lastVis[c]
        /\ layers[c].gen = 2
        /\ layers[c] \notin mapLayers
        /\ lastKind = "features"

\* C10: a visibility call repeated with the same value changes nothing the
\* first call did not.
SetVisibilityIdempotent ==
    \A c \in DOMAIN layers \cup {categoryOf(script, b) : b \in DOMAIN checkbox},
       v \in BOOLEAN :
        LET once == setVisibility(script, layers, mapLayers, c, v)
        IN  setVisibility(script, layers, once, c, v) = once

IdempotentWitness ==
    /\ \E c \in DOMAIN layers \cap DOMAIN lastVis : layers[c] \in mapLayers
    /\ \E c \in DOMAIN layers : layers[c] \notin mapLayers

\* C11: a visibility call for a category that has no registered layer
\* changes neither the registered layers nor the attached ones.
UnknownCategoryIsNoOp ==
    [][\A box \in DOMAIN checkbox :
          (ToggleLayer(box) /\ categoryOf(script, box) \notin DOMAIN layers)
             => UNCHANGED <<layers, mapLayers>>]_vars

\* a checkbox was toggled while no response had been processed yet
UnknownCategoryWitness ==
    /\ lastVis # EmptyMap
    /\ builtFrom = 0
    /\ layers = EmptyMap

\* C12: after a successful reload the count shown for a category is the
\* number of features of its registered layer, and 0 when it has no layer.
CountMatchesLayer ==
    [][(script = India /\ Responded /\ lastResult' = "loaded")
          => \A k \in DOMAIN counts' :
                counts'[k] = IF k \in DOMAIN layers'
                             THEN Len(layers'[k].features) ELSE 0]_vars

\* C13: every field of the current filter snapshot has a non-empty value,
\* also in the query of every data fetch and every export in flight.
SnapshotValuesNonEmpty ==
    /\ \A f \in DOMAIN currentFilters : currentFilters[f] # ""
    /\ \A r \in pending : \A pair \in r.params : pair[2] # ""
    /\ \A e \in exports : \A pair \in e.query : pair[2] # ""

SnapshotWitness ==
    /\ "district" \in DOMAIN currentFilters
    /\ "state" \notin DOMAIN currentFilters
    /\ \E r \in pending : r.params # {}
    /\ \E e \in exports : e.query # {}

\* empty or blank input values
Blank == {"", " "}

\* C14: applyFilters leaves exactly the fields whose input value is neither
\* empty nor blank, each with its input value.
ApplyStripsBlank ==
    [][\A fields \in FilterForms :
          applyFilters(fields, MaxFilterReloads)
             => currentFilters' =
                   [f \in {g \in FilterFields : fields[g] \notin Blank} |->
                       fields[f]]]_vars

\* C15: after clearFilters the snapshot has no fields and the fetch it
\* issues carries no query parameters.
ClearYieldsEmpty ==
    [][clearFilters(MaxFilterReloads)
          => /\ currentFilters' = EmptyMap
             /\ \E r \in pending' \ pending : r.params = {}]_vars

ClearWitness ==
    /\ currentFilters = EmptyMap
    /\ \E r1, r2 \in pending :
          /\ r1.id < r2.id
          /\ r1.params # {} /\ ~r1.initial
          /\ r2.params = {} /\ ~r2.initial

\* a step that starts a reload: applyFilters, clearFilters, or the data
\* fetch of the initial load
ReloadRequested ==
    \/ \E fields \in FilterForms : applyFilters(fields, MaxFilterReloads)
    \/ clearFilters(MaxFilterReloads)
    \/ initPc # "data" /\ initPc' = "data"

\* C16: each reload issues exactly one data fetch, whose query parameters
\* are the (field, value) pairs of the snapshot; no other step issues one.
OneFetchPerReload ==
    [][IF ReloadRequested
       THEN /\ reqCount' = reqCount + 1
            /\ \E r \in pending' \ pending :
                  /\ pending' = pending \cup {r}
                  /\ r.params = {<<f, currentFilters'[f]>> :
                                    f \in DOMAIN currentFilters'}
       ELSE /\ reqCount' = reqCount
            /\ pending' \subseteq pending]_vars

OneFetchWitness ==
    /\ reqCount = 3
    /\ \E r \in pending : r.initial /\ r.params # {}
    /\ \E r \in pending : ~r.initial /\ r.params # {}

\* a detail fetch of the claim with the given outcome
fetchOf(claimId, outcome) == [claimId |-> claimId, outcome |-> outcome]

\* C17: a resolve of a claim whose record was fetched successfully before
\* issues no further fetch and shows the record.
SecondResolveFromCache ==
    [][\A claimId \in 1..MaxFeatures :
          (/\ ShowClaimDetails(claimId)
           /\ \E i \in DOMAIN detailFetches :
                 detailFetches[i] = fetchOf(claimId, "shown"))
             => /\ detailFetches' = detailFetches
                /\ modal' = <<[claim_id |-> claimId]>>]_vars

\* C18: a detail fetch that rejects or carries an error field reports the
\* error and displays nothing; a later resolve of the same claim issues a
\* new fetch, and a fetch that succeeds displays the claim's record.
FailedResolveNotStored ==
    [][/\ \A i \in DOMAIN detailFetches, kind \in {"reject", "error"} :
             DetailResponse(i, kind)
                => /\ UNCHANGED modal
                   /\ detailResult' = "failed"
                   /\ detailFetches'[i].outcome = "failed"
       /\ \A claimId \in 1..MaxFeatures :
             (/\ ShowClaimDetails(claimId)
              /\ \E i \in DOMAIN detailFetches :
                    detailFetches[i] = fetchOf(claimId, "failed"))
                => detailFetches' =
                      Append(detailFetches, fetchOf(claimId, "pending"))
       /\ \A i \in DOMAIN detailFetches :
             DetailResponse(i, "record")
                => /\ modal' = <<[claim_id |-> detailFetches[i].claimId]>>
                   /\ detailResult' = "shown"]_vars

\* the first fetch of a claim failed with nothing displayed, the second
\* one displayed the record
FailedResolveWitness ==
    /\ detailFetches = <<fetchOf(1, "failed"), fetchOf(1, "shown")>>
    /\ modal = <<[claim_id |-> 1]>>
    /\ detailResult = "shown"

\* C19: at most one detail fetch of a claim is in flight.
OneDetailFetchInFlight ==
    \A claimId \in 1..MaxFeatures :
        Cardinality({i \in DOMAIN detailFetches :
                        detailFetches[i] = fetchOf(claimId, "pending")}) <= 1

\* C20: the displayed total is absent until a response with a success
\* status, no error field and a features sequence is processed, becomes
\* that response's feature total then, and is changed by no other step.
SummaryReflectsLastSuccess ==
    [][IF Responded /\ lastKind' = "features"
       THEN featureCount' = <<Len(lastInput')>>
       ELSE UNCHANGED featureCount]_vars

\* C21: every reload goes Loading -> (Loaded | Failed): when every fetch is
\* answered, a fetch in flight is eventually no longer in flight and the
\* status of LandUseMap does not stay "loading"; the step that handles a
\* response ends exactly one fetch as loaded or as failed; a load that ends
\* as loaded has registered the layer of every non-empty bucket of its
\* response, a failed one reports the error; and LandUseMap shows success
\* only when the layers of the loaded response are registered.
inFlight(id) == \E r \in pending : r.id = id
layersBuilt(ls, grouped, gen) ==
    \A k \in DOMAIN grouped :
        grouped[k] # <<>> =>
            /\ k \in DOMAIN ls
            /\ ls[k].features = grouped[k]
            /\ ls[k].gen = gen
ReloadStateMachine ==
    /\ \A id \in 1..MaxReloads : inFlight(id) ~> ~inFlight(id)
    /\ (script = Land /\ status = "loading") ~> (status \in {"success", "error"})
    /\ [][Responded =>
             /\ Cardinality(pending \ pending') = 1
             /\ lastResult' \in {"loaded", "failed"}
             /\ lastResult' = "loaded" =>
                    layersBuilt(layers', lastGrouped', builtFrom')
             /\ (script = Land /\ lastResult' = "failed") => status' = "error"
             /\ (script = Land /\ lastResult' = "loaded") => status' = "success"
          ]_vars
    /\ [](status = "success" =>
             lastResult = "loaded" /\ layersBuilt(layers, lastGrouped, builtFrom))

ReloadEndedWitness ==
    /\ reqCount >= 2 /\ pending = {}
    /\ lastResult = "loaded" /\ layers # EmptyMap

\* C22: in IndiaLandUseMap and FRAWebGIS a toggleLayer call made while a
\* data fetch is in flight is one step that leaves the fetches in flight and
\* the registered layers as they are and attaches or detaches registered
\* layers only; and when a response is then processed, the new layer of a
\* category that was toggled is attached iff the last call for it said
\* visible.
toggledWhilePending ==
    /\ \E box \in DOMAIN checkbox : ToggleLayer(box)
    /\ pending # {}
onlyRegisteredTouched ==
    /\ pending' = pending /\ reqCount' = reqCount
    /\ layers' = layers
    /\ \A l \in (mapLayers' \ mapLayers) \cup (mapLayers \ mapLayers') :
          l \in Range(layers)
togglesHonoured ==
    \A c \in DOMAIN lastVis \cap DOMAIN layers' :
        layers'[c] \in mapLayers' <=> lastVis[c]
ToggleDuringReload ==
    [][(script \in {India, FRA}) =>
          ((toggledWhilePending => onlyRegisteredTouched)
           /\ ((Responded /\ lastResult' = "loaded") => togglesHonoured))]_vars

\* every fetch issued so far is still in flight (no response was handled
\* yet), one of them a reload, and a checkbox was toggled meanwhile: the
\* checkboxes of IndiaLandUseMap exist only from the step that issues the
\* first fetch
ToggleDuringReloadWitness ==
    /\ script = India /\ lastKind = None
    /\ reqCount >= 2 /\ Cardinality(pending) = reqCount
    /\ lastVis # EmptyMap

\* C23: the request that exportData issues carries exactly the (field,
\* value) pairs of the current filter snapshot, and neither issuing it nor
\* its outcome (download or failure) changes the snapshot, the registered
\* layers, what is attached to the map, or the checkboxes.
exportIssued == exportCount' = exportCount + 1
exportEnded == exports' # exports /\ exports' \subseteq exports
ExportForwardsSnapshot ==
    [][(exportIssued \/ exportEnded) =>
          /\ UNCHANGED <<currentFilters, layers, mapLayers, checkbox>>
          /\ exportIssued =>
                \E e \in exports' \ exports :
                    /\ exports' = exports \cup {e}
                    /\ \A f \in DOMAIN currentFilters :
                          <<f, currentFilters[f]>> \in e.query
                    /\ \A q \in e.query :
                          q[1] \in DOMAIN currentFilters
                             /\ currentFilters[q[1]] = q[2]]_vars

\* an export of a non-empty snapshot is in flight or done while a layer is
\* on the map
ExportWitness ==
    /\ exportCount >= 1 /\ currentFilters # EmptyMap /\ mapLayers # {}
    /\ \A e \in exports : e.query # {}

\* C24: every layer attached to the map is a registered layer, and it was
\* built from the response that was processed last: no layer of an earlier
\* response is still attached.
NoStaleLayerAttached ==
    /\ mapLayers \subseteq Range(layers)
    /\ \A l \in mapLayers : l.gen = builtFrom

\* two fetches were answered, the one issued first processed last, and a
\* layer of it is on the map
NoStaleWitness ==
    /\ reqCount >= 2 /\ pending = {}
    /\ builtFrom = 1 /\ lastResult = "loaded"
    /\ mapLayers # {}

\* C25: a checkbox change (toggleLayer, showLayer / hideLayer) leaves the
\* registry as it is (the same categories, each with the same layer and
\* features) and leaves the filter snapshot and the fetches as they are;
\* on the map it changes at most whether the layer of the category of that
\* checkbox is attached.
toggleFrame(className) ==
    /\ layers' = layers
    /\ currentFilters' = currentFilters
    /\ pending' = pending
    /\ \A k \in DOMAIN layers \ {className} :
          layers[k] \in mapLayers' <=> layers[k] \in mapLayers
    /\ mapLayers' \ Range(layers) = mapLayers \ Range(layers)
ToggleChangesOneAttachment ==
    [][\A box \in DOMAIN checkbox :
          ToggleLayer(box) => toggleFrame(categoryOf(script, box))]_vars

\* two claim types are registered; IFR was hidden by its checkbox and CFR
\* is still on the map
ToggleFrameWitness ==
    /\ script = FRA
    /\ {"IFR", "CFR"} \subseteq DOMAIN layers
    /\ "IFR" \in DOMAIN lastVis /\ ~lastVis["IFR"]
    /\ layers["IFR"] \notin mapLayers
    /\ layers["CFR"] \in mapLayers

\* C26: the style of every registered layer is the style table entry of
\* the layer's own category when the table has one, and otherwise the entry
\* fra_area (IndiaLandUseMap) or IFR (FRAWebGIS); it is always an entry of
\* the table, never undefined.
StyleLookupTotal ==
    \A k \in DOMAIN layers :
        /\ layers[k].style \in StyleKeys(script)
        /\ k \in StyleKeys(script) => layers[k].style = k
        /\ (k \notin StyleKeys(script) /\ script = India)
              => layers[k].style = "fra_area"
        /\ (k \notin StyleKeys(script) /\ script = FRA)
              => layers[k].style = "IFR"

\* a styled category and one without a style were loaded together
StyleWitness ==
    /\ script = India
    /\ {"water", "barren"} \subseteq DOMAIN layers
    /\ layers["water"].style = "water"
    /\ layers["barren"].style = "fra_area"

\* C27: within every bucket the features stand in the order they have in
\* the input collection (feature i of the input carries id i), and when two
\* loads in a row are handed the same collection the second classification
\* gives the same buckets with the same contents in the same order.
orderPreserved ==
    \A k \in DOMAIN lastGrouped :
        /\ \A j \in DOMAIN lastGrouped[k] :
              /\ lastGrouped[k][j].id \in DOMAIN lastInput
              /\ lastInput[lastGrouped[k][j].id] = lastGrouped[k][j]
        /\ \A i, j \in DOMAIN lastGrouped[k] :
              i < j => lastGrouped[k][i].id < lastGrouped[k][j].id
sameCollectionAgain ==
    /\ Responded
    /\ lastResult = "loaded" /\ lastResult' = "loaded"
    /\ lastInput' = lastInput
ClassificationOrdered ==
    /\ []orderPreserved
    /\ [][sameCollectionAgain => lastGrouped' = lastGrouped]_vars

\* the second of two loads put two features into one bucket
OrderWitness ==
    /\ script \in {India, FRA}
    /\ reqCount >= 2 /\ pending = {} /\ lastResult = "loaded"
    /\ \E k \in DOMAIN lastGrouped : Len(lastGrouped[k]) >= 2

\* C28: in LandUseMap the step that handles a /status response without
\* data_available issues no /data fetch, leaves the registry and the map
\* empty and sets the status to error, after which loadData has ended; a
\* /data fetch is issued only by the step that handles a /status response
\* with data_available; and as long as no /data fetch was issued no layer
\* is registered or attached, whatever toggles are used.
statusGate ==
    /\ LandStatusResponse("unavailable") =>
          /\ reqCount' = 0 /\ pending' = {}
          /\ layers' = EmptyMap /\ mapLayers' = {}
          /\ status' = "error" /\ initPc' = "done"
    /\ reqCount' # reqCount => LandStatusResponse("available")
DataOnlyWhenAvailable ==
    /\ [][(script = Land) => statusGate]_vars
    /\ []((script = Land /\ reqCount = 0) =>
             (layers = EmptyMap /\ mapLayers = {} /\ status # "success"))

\* loadData ended without a /data fetch, and a class toggle was used since
DataUnavailableWitness ==
    /\ script = Land /\ initPc = "done" /\ reqCount = 0
    /\ status = "error" /\ lastVis # EmptyMap
    /\ layers = EmptyMap /\ mapLayers = {}

\* C29: in IndiaLandUseMap and FRAWebGIS a category that has a registered
\* layer and a checkbox has its layer on the map iff the checkbox is
\* checked.
CheckboxMatchesAttachment ==
    script \in {India, FRA} =>
        \A k \in DOMAIN layers :
            checkboxId(script, k) \in DOMAIN checkbox =>
                (layers[k] \in mapLayers <=> checkbox[checkboxId(script, k)])

\* C30: in LandUseMap a class whose toggle the user has changed and that
\* has a layer has the layer on the map iff its toggle is checked.
ClassToggleMatchesAttachment ==
    script = Land =>
        \A k \in DOMAIN lastVis \cap DOMAIN layers :
            layers[k] \in mapLayers <=> checkbox[k]

\* C31: whenever no data fetch is in flight, the registered layers were
\* built from the response to a fetch issued with the current filter
\* snapshot (the query an export issued now would carry).
DisplayMatchesFilters ==
    (script \in {India, FRA} /\ pending = {} /\ layers # EmptyMap)
        => builtParams = URLSearchParams(currentFilters)

\* C32: once the detail fetches of two different claims have both been
\* answered with their records, the modal shows the record of the claim
\* that was asked for last.
DetailsShowLatest ==
    \A i \in DOMAIN detailFetches :
        (/\ i + 1 = Len(detailFetches)
         /\ detailFetches[i].claimId # detailFetches[i + 1].claimId
         /\ detailFetches[i].outcome = "shown"
         /\ detailFetches[i + 1].outcome = "shown"
         /\ \A j \in DOMAIN detailFetches : detailFetches[j].outcome # "pending")
            => modal = <<[claim_id |-> detailFetches[i + 1].claimId]>>

\* C33: in IndiaLandUseMap and FRAWebGIS, while no data fetch is in flight,
\* the total that the feature-count element displays is the number of
\* features the registered layers hold, and the per-category counts that
\* IndiaLandUseMap displays add up to it (where every registered category
\* has a count element).
RECURSIVE sumOver(_, _)
sumOver(f, keys) ==
    IF keys = {} THEN 0
    ELSE LET k == CHOOSE x \in keys : TRUE
         IN  f[k] + sumOver(f, keys \ {k})
featuresHeld == sumOver([k \in DOMAIN layers |-> Len(layers[k].features)],
                        DOMAIN layers)
SummaryMatchesLayers ==
    (script \in {India, FRA} /\ pending = {} /\ featureCount # <<>>) =>
        /\ featureCount[1] = featuresHeld
        /\ (script = India /\ counts # EmptyMap
               /\ DOMAIN layers \subseteq DOMAIN counts) =>
               sumOver(counts, DOMAIN counts) = featureCount[1]

\* C34: loadInitialData of IndiaLandUseMap and FRAWebGIS takes its steps in
\* the written order, one at a time; its data fetch is issued by the step
\* that ends the step before it and the steps after it start only when
\* that fetch has been answered; and, every fetch being answered, the data
\* fetch is issued and the last step ends whatever fails on the way.
initOrder(s) ==
    IF s = India
    THEN {<<"filterOptions", "layers">>, <<"layers", "data">>,
          <<"data", "statistics">>, <<"statistics", "progress">>,
          <<"progress", "done">>}
    ELSE {<<"filterOptions", "performance">>, <<"performance", "data">>,
          <<"data", "done">>}
initialFetchIssued == \E r \in pending' \ pending : r.initial
initialFetchAnswered == \E r \in pending \ pending' : r.initial
stepsInOrder ==
    /\ initPc' # initPc => <<initPc, initPc'>> \in initOrder(script)
    /\ initialFetchIssued <=> (initPc # "data" /\ initPc' = "data")
    /\ initialFetchAnswered <=> (initPc = "data" /\ initPc' # "data")
InitialLoadInOrder ==
    /\ [][(script \in {India, FRA}) => stepsInOrder]_vars
    /\ (script \in {India, FRA}) => <>(initPc = "data")
    /\ (script \in {India, FRA}) => <>[](initPc = "done")

\* loadLayers failed (no checkbox was created), the data fetch of the
\* initial load was rejected, and the initial load still ran to its end
InitialLoadWitness ==
    /\ script = India /\ initPc = "done"
    /\ checkbox = EmptyMap
    /\ reqCount = 1 /\ lastKind = "reject"

====
